---- MODULE Spec2Model ----
(***************************************************************************)
(* The blink daemon (src/src/bin/blinkd.rs): one Daemon value behind a     *)
(* std::sync::Mutex, mutated by the tick task, by one handler task per     *)
(* client connection and by the activity branch of the serving loop.       *)
(*                                                                         *)
(* Durations and instants are integers counting clock quanta.  The code's  *)
(* quantum is the nanosecond of std::time::Duration; the model's quantum   *)
(* is the second, which is the granularity of TICK_INTERVAL, of            *)
(* get_unix_time() and of the configuration file's mm:ss durations.        *)
(* Duration::from_secs_f64 truncates to a whole quantum.                   *)
(***************************************************************************)
EXTENDS Integers, Sequences, FiniteSets

\* ------------------------------------------------------------------ bounds
\* last instant the clock reaches
Horizon == 5
\* an activity message is delivered at most this long after its input event
MaxLag == 1
\* largest elapsed value the schedule is recomputed at
MaxElapsed == 12
\* ticks the scenario run takes after the first firing is due
ExtraTicks == 2
\* ticking stops once a timer has been selected this often without a reset
MaxPrompts == 4
\* input events actived sees
MaxEvents == 4
\* the wall clock is set back by at most this much in all
MaxStepBack == 2

\* --------------------------------------------------------------- constants
TICK_INTERVAL == 1
UNFREEZE_BELOW == 3
DURATION_MAX == 1000000
\* the span of a u64, 2^64 in the code, on the scale of DURATION_MAX
U64_SPAN == 1000000
\* values the broadcast channel of actived retains: broadcast::channel(100)
\* in the code, scaled to the number of input events the model runs
BROADCAST_CAPACITY == 2

\* Option<T>: None is the empty sequence, Some(x) the sequence <<x>>
None == <<>>
Some(x) == <<x>>
Unwrap(o) == o[1]

\* the tick task as a holder of the mutex; the handlers are the
\* connection slots
TickTask == 0

\* ----------------------------------------------------------- configuration
\* config.rs Timer: decline is the rational decline.num / decline.den
Timer(i, d, n, m) ==
    [interval |-> i, initial_delay |-> d, decline |-> [num |-> n, den |-> m]]

\* duration_format::deserialize on the numbers of an "mm:ss" or "hh:mm:ss"
\* string: the duration in seconds, or None for an error
Deserialize(parts) ==
    IF Len(parts) = 2
    THEN IF parts[2] > 59 THEN None ELSE Some(parts[1] * 60 + parts[2])
    ELSE IF Len(parts) = 3
    THEN IF parts[2] > 59 \/ parts[3] > 59 THEN None
         ELSE Some(parts[1] * 3600 + parts[2] * 60 + parts[3])
    ELSE None

TimerShort == Timer(2, None, 0, 1)
TimerLong == Timer(4, None, 1, 2)
TimerDelayed == Timer(3, Some(1), 1, 1)
\* the 60-minute timer with decline 0.5, at ten minutes to the quantum
TimerHour == Timer(6, None, 1, 2)
\* the 20-minute timer without decline, at forty seconds to the quantum
TimerScenario == Timer(30, None, 0, 1)
\* a timer without decline that is first due at the start: initial_delay
\* is written "00:00"
TimerAtStart == Timer(3, Some(Unwrap(Deserialize(<<0, 0>>))), 0, 1)
\* a timer without decline that is first due one quantum after the start
TimerDelayedFlat == Timer(3, Some(1), 0, 1)
\* a timer whose interval is written "00:00" in the configuration file
TimerZero == Timer(Unwrap(Deserialize(<<0, 0>>)), None, 0, 1)

InputTracking(p, r) == [pause_after |-> p, reset_after |-> r]

Config(ts, it) == [timers |-> ts, input_tracking |-> it]

\* the configurations the daemon is started with
Configs ==
    { Config(<<TimerShort, TimerLong>>, None),
      Config(<<TimerShort, TimerLong>>, Some(InputTracking(2, 4))),
      Config(<<TimerDelayed>>, Some(InputTracking(3, 5))),
      Config(<<>>, None) }

AllTimers ==
    {TimerShort, TimerLong, TimerDelayed, TimerHour, TimerScenario,
     TimerZero, TimerAtStart, TimerDelayedFlat}

\* the catalogs the schedule recomputation is applied to: every timer has a
\* positive interval
Catalogs ==
    { <<TimerShort, TimerLong>>,
      <<TimerLong, TimerShort>>,
      <<TimerDelayed>>,
      <<TimerDelayed, TimerShort>>,
      <<TimerShort, TimerDelayed, TimerLong>>,
      <<TimerHour>> }

\* the connection slots: two client connections can be open at once
Clients == {1, 2}

IpcRequest == {"Status", "Toggle", "Reset"}

\* ------------------------------------------------------------------- state
VARIABLES
    config,         \* Daemon.config
    elapsed,        \* Daemon.elapsed
    last_update,    \* Daemon.last_update
    next_timer_at,  \* Daemon.next_timer_at
    next_timer,     \* Daemon.next_timer
    timers,         \* Daemon.timers: sequence of TimerState
    is_enabled,     \* Daemon.is_enabled
    is_frozen,      \* Daemon.is_frozen
    last_input,     \* Daemon.last_input
    clock,          \* the system clock (Instant::now and get_unix_time)
    lock,           \* holder of the Mutex around the Daemon
    main_pc,        \* position of Daemon::run
    tick_pc,        \* position of the tick task
    tick_now,       \* the tick task's local `now`
    tick_path,      \* which call of update_timer the running tick is in
    client_pc,      \* position of each connection's handle_client
    client_msg,     \* the request each handler received
    client_resp,    \* the response each handler computed
    client_conn,    \* each slot's SocketStream, open until it is dropped
    activity_stream, \* run's activity_stream, the connection to actived
    fired,          \* history: notify() calls per timer since the last reset
    prev_tick,      \* history: the instant the previous tick was taken at
    tick_pre,       \* history: what the running tick started from
    tick_log,       \* history: resets and firings of the running tick
    reset_from,     \* history: what the reset in progress started from
    commit,         \* history: what became of each handler's mutation
    signal,         \* SIGTERM / SIGINT delivered to the process and not yet taken
    wall_back,      \* how far the wall clock has been set back since the start
    ad_last_input,  \* actived: the AtomicU64 last_input
    ad_channel,     \* actived: every value the broadcast channel has taken
    ad_pc,          \* actived: position of each connection's handle_client
    ad_rx,          \* actived: values each broadcast_rx has passed
    ad_timestamp,   \* actived: the timestamp each handler is about to send
    ad_stream,      \* actived: what each handler has written to its stream
    ad_subscribed   \* history: length of the channel when each rx subscribed

daemon == <<config, elapsed, last_update, next_timer_at, next_timer, timers,
            is_enabled, is_frozen, last_input>>
tasks == <<lock, main_pc, tick_pc, tick_now, tick_path,
           client_pc, client_msg, client_resp, client_conn,
           activity_stream>>
history == <<fired, prev_tick, tick_pre, tick_log, reset_from, commit>>
actived == <<ad_last_input, ad_channel, ad_pc, ad_rx, ad_timestamp, ad_stream,
             ad_subscribed>>
world == <<signal, wall_back, actived>>
vars == <<daemon, clock, tasks, history, world>>

\* ------------------------------------------------------- scheduling engine
RECURSIVE Pow(_, _)
Pow(b, n) == IF n = 0 THEN 1 ELSE b * Pow(b, n - 1)

\* TimerState::new
TimerStateNew(b) == [time_left |-> 0, prompts |-> 0, timer |-> b]

\* a reset that keeps the count
TimerStateResetKeeping(item) == item

\* TimerState::reset
TimerStateReset(item) == [item EXCEPT !.prompts = 0]

\* a periodic phase counted from elapsed = 0 whatever the initial delay
TimeLeftUnanchored(timer, el) ==
    IF timer.initial_delay # None /\ el <= Unwrap(timer.initial_delay)
    THEN Unwrap(timer.initial_delay) - el
    ELSE timer.interval - (el % timer.interval)

\* the time_left expression of update_timer
TimeLeft(timer, el) ==
    IF timer.initial_delay # None /\ el <= Unwrap(timer.initial_delay)
    THEN Unwrap(timer.initial_delay) - el
    ELSE IF timer.initial_delay # None
    THEN timer.interval - ((el - Unwrap(timer.initial_delay)) % timer.interval)
    ELSE timer.interval - (el % timer.interval)

\* a comparator that looks at the interval alone
SortsBeforeLongest(a, b) == a.timer.interval > b.timer.interval

\* a comparator without the tie-break on the interval
SortsBeforeNoTie(a, b) == a.time_left < b.time_left

\* the comparator of timers.sort_by: a sorts strictly before b
SortsBefore(a, b) ==
    \/ a.time_left < b.time_left
    \/ a.time_left = b.time_left /\ a.timer.interval > b.timer.interval

\* insert x behind every element that does not sort after it (stable)
RECURSIVE InsertSorted(_, _)
InsertSorted(x, s) ==
    IF s = <<>> THEN <<x>>
    ELSE IF SortsBefore(x, Head(s)) THEN <<x>> \o s
    ELSE <<Head(s)>> \o InsertSorted(x, Tail(s))

\* slice::sort_by, a stable sort
RECURSIVE SortTimers(_)
SortTimers(s) ==
    IF s = <<>> THEN <<>>
    ELSE InsertSorted(s[Len(s)], SortTimers(SubSeq(s, 1, Len(s) - 1)))

\* a multiplier taken with the count after its increment
DeclinedIntervalAfterIncrement(next) ==
    (next.time_left * Pow(next.timer.decline.den, next.prompts + 1))
        \div Pow(next.timer.decline.den + next.timer.decline.num,
                 next.prompts + 1)

\* a multiplier that lengthens the wait
DeclinedIntervalGrowing(next) ==
    (next.time_left
        * Pow(next.timer.decline.den + next.timer.decline.num, next.prompts))
        \div Pow(next.timer.decline.den, next.prompts)

\* a multiplier of one half per prompt whatever the timer's decline
DeclinedIntervalHalving(next) == next.time_left \div Pow(2, next.prompts)

\* the decline function: time_left * (1 / (1 + decline)) ^ prompts
DeclinedInterval(next) ==
    (next.time_left * Pow(next.timer.decline.den, next.prompts))
        \div Pow(next.timer.decline.den + next.timer.decline.num, next.prompts)

\* the count restarts at every selection
NextPromptsRestarting(p) == 1

\* the count is not incremented at a selection
NextPromptsStuck(p) == p

\* a selection that counts twice
NextPromptsTwice(p) == p + 2

\* next.prompts += 1
NextPrompts(p) == p + 1

\* the wait taken as an absolute elapsed value
NextTimerAtRelative(el, interval) == interval

\* self.next_timer_at = self.elapsed + interval
NextTimerAt(el, interval) == el + interval

\* a recomputation that restarts the count of every timer it does not select
UpdateTimerForgetting(ts, el, at, nt) ==
    LET left == [i \in 1..Len(ts) |->
                    [ts[i] EXCEPT !.time_left = TimeLeft(ts[i].timer, el)]]
        sorted == SortTimers(left)
    IN
    IF sorted = <<>>
    THEN [timers |-> sorted, next_timer_at |-> at, next_timer |-> nt]
    ELSE [timers |-> [i \in 1..Len(sorted) |->
                        [sorted[i] EXCEPT !.prompts =
                            IF i = 1 THEN NextPrompts(@) ELSE 0]],
          next_timer_at |-> NextTimerAt(el, DeclinedInterval(sorted[1])),
          next_timer |-> Some(sorted[1].timer)]

\* Daemon::update_timer on (timers, elapsed); at and nt are the current
\* next_timer_at and next_timer, kept when there is no timer
UpdateTimer(ts, el, at, nt) ==
    LET left == [i \in 1..Len(ts) |->
                    [ts[i] EXCEPT !.time_left = TimeLeft(ts[i].timer, el)]]
        sorted == SortTimers(left)
    IN
    IF sorted = <<>>
    THEN [timers |-> sorted, next_timer_at |-> at, next_timer |-> nt]
    ELSE [timers |-> [sorted EXCEPT ![1].prompts = NextPrompts(sorted[1].prompts)],
          next_timer_at |-> NextTimerAt(el, DeclinedInterval(sorted[1])),
          next_timer |-> Some(sorted[1].timer)]

\* update_timer panics: for a timer past its initial delay the f64 remainder
\* by a zero interval is NaN, and Duration::from_secs_f64 panics on NaN
Panics(ts, el) ==
    \E i \in 1..Len(ts) :
        /\ ts[i].timer.interval = 0
        /\ ~(/\ ts[i].timer.initial_delay # None
              /\ el <= Unwrap(ts[i].timer.initial_delay))

\* Daemon::reset up to its call of update_timer
ResetTimers(ts) == [i \in 1..Len(ts) |-> TimerStateReset(ts[i])]

\* Daemon::reset on (timers, next_timer_at, next_timer)
Reset(ts, at, nt) == UpdateTimer(ResetTimers(ts), 0, at, nt)

\* ------------------------------------------------------------------- mutex
\* a lock that is granted while another task holds it
CanLockAlways == TRUE

\* Mutex::lock returns once no task holds the guard
CanLock == lock = None

\* get_unix_time(): the wall clock, which follows the monotonic clock until
\* it is set back
get_unix_time == clock - wall_back

\* a difference of instants that goes negative
DurationSinceSigned(now, earlier) == now - earlier

\* Instant::duration_since: zero if earlier is later than now
DurationSince(now, earlier) == IF now >= earlier THEN now - earlier ELSE 0

\* get_unix_time() - self.last_input on u64 in a build without overflow
\* checks: the difference modulo the span of the type
SinceInput(now, last) == (now - last) % U64_SPAN

\* ----------------------------------------------------------------- history
NoFired == [t \in AllTimers |-> 0]
NoTick == [elapsed |-> 0, delta |-> 0, next_timer_at |-> 0,
           is_enabled |-> TRUE, is_frozen |-> FALSE, last_update |-> 0]

\* the schedule as a reset finds it
Schedule == [elapsed |-> elapsed, timers |-> timers,
             next_timer_at |-> next_timer_at, next_timer |-> next_timer]
NoLog == [resets |-> 0, fired |-> 0]
NoCommit == [state |-> "none", was_enabled |-> TRUE]
NoResp == [kind |-> "None", elapsed |-> 0, next_timer |-> 0]

\* a mutation of the schedule makes every earlier Reset stale
StaleResets(cm) ==
    [c \in Clients |->
        IF client_msg[c] = "Reset" /\ cm[c].state = "fresh"
        THEN [state |-> "stale", was_enabled |-> TRUE] ELSE cm[c]]

\* a flip of is_enabled makes every earlier Toggle stale
StaleToggles(cm) ==
    [c \in Clients |->
        IF client_msg[c] = "Toggle" /\ cm[c].state = "fresh"
        THEN [state |-> "stale", was_enabled |-> TRUE] ELSE cm[c]]

\* -------------------------------------------------------------------- Init
\* actived's main before its accept loop: the channel is empty, last_input
\* holds the time of the start, no client is connected
ActivedNew ==
    /\ ad_last_input = 0
    /\ ad_channel = <<>>
    /\ ad_pc = [c \in Clients |-> "none"]
    /\ ad_rx = [c \in Clients |-> 0]
    /\ ad_timestamp = [c \in Clients |-> 0]
    /\ ad_stream = [c \in Clients |-> <<>>]
    /\ ad_subscribed = [c \in Clients |-> 0]

\* Daemon::new(config), before run() has scheduled anything
DaemonNew ==
    /\ clock = 0
    /\ elapsed = 0
    /\ last_update = 0
    /\ next_timer_at = DURATION_MAX
    /\ next_timer = None
    /\ timers = [i \in 1..Len(config.timers) |-> TimerStateNew(config.timers[i])]
    /\ is_enabled = TRUE
    /\ is_frozen = FALSE
    /\ last_input = 0
    /\ lock = None
    /\ main_pc = "new"
    /\ tick_pc = "sleep"
    /\ tick_now = 0
    /\ tick_path = "none"
    /\ client_pc = [c \in Clients |-> "idle"]
    /\ client_msg = [c \in Clients |-> "none"]
    /\ client_resp = [c \in Clients |-> NoResp]
    /\ client_conn = [c \in Clients |-> "closed"]
    /\ activity_stream =
          IF config.input_tracking # None THEN "open" ELSE "none"
    /\ fired = NoFired
    /\ prev_tick = 0
    /\ tick_pre = NoTick
    /\ tick_log = NoLog
    /\ reset_from = None
    /\ commit = [c \in Clients |-> NoCommit]
    /\ signal = "none"
    /\ wall_back = 0
    /\ ActivedNew

\* the daemon is constructed from one of the configurations
Init == config \in Configs /\ DaemonNew

\* ------------------------------------------------------------------- clock
\* One tick interval passes.  The clock is read by the tick task only (line 128
\* before the lock, get_unix_time() inside tick), so a quantum that passes
\* later in a critical section is the same as one passing after the unlock.
Elapse ==
    /\ UNCHANGED world
    /\ clock < Horizon
    /\ lock = None \/ tick_pc = "locked"
    /\ clock' = clock + TICK_INTERVAL
    /\ UNCHANGED <<daemon, tasks, history>>

\* ----------------------------------------------------------------- startup
\* Daemon::run: daemon.lock().unwrap().update_timer() before any task
\* exists; a panic here ends the process
Startup ==
    /\ UNCHANGED world
    /\ main_pc = "new"
    /\ CanLock
    /\ IF Panics(timers, elapsed)
       THEN /\ main_pc' = "panicked"
            /\ UNCHANGED <<timers, next_timer_at, next_timer>>
       ELSE /\ LET u == UpdateTimer(timers, elapsed, next_timer_at, next_timer)
               IN /\ timers' = u.timers
                  /\ next_timer_at' = u.next_timer_at
                  /\ next_timer' = u.next_timer
            /\ main_pc' = "serving"
    /\ UNCHANGED <<client_conn, activity_stream>>
    /\ UNCHANGED <<config, elapsed, last_update, is_enabled, is_frozen,
                   last_input, clock, lock, tick_pc, tick_now, tick_path,
                   client_pc, client_msg, client_resp, history>>

\* --------------------------------------------------------------- tick task
\* advancement that does not look at is_enabled
AdvancingWhenDisabled(frozen, enabled) == ~frozen

\* elapsed is never advanced
AdvancingNever(frozen, enabled) == FALSE

\* the expression !self.is_frozen && self.is_enabled of Daemon::tick
Advancing(frozen, enabled) == ~frozen /\ enabled

\* the freeze / un-freeze step of Daemon::tick
Frozen(frozen, since_input, it) ==
    IF ~frozen /\ since_input > it.pause_after THEN TRUE
    ELSE IF frozen /\ since_input < UNFREEZE_BELOW THEN FALSE
    ELSE frozen

\* last_update is left at the value it had
LastUpdateStale(now, old) == old

\* self.last_update = now, where old is the value it replaces
LastUpdate(now, old) == now

\* a suspend check with > for >=
SuspendGapStrict(delta, it) == delta > it.reset_after

\* the suspend check of Daemon::tick: delta >= timeout_reset
SuspendGap(delta, it) == delta >= it.reset_after

\* an inactivity reset that does not freeze
FrozenAfterResetUnset(path, frozen) == frozen

\* every reset of a tick freezes
FrozenAfterResetAny(path, frozen) ==
    IF path \in {"idle_reset", "gap_reset"} THEN TRUE ELSE frozen

\* self.is_frozen = true after the reset of the inactivity branch; path is
\* the branch the running tick took
FrozenAfterReset(path, frozen) ==
    IF path = "idle_reset" THEN TRUE ELSE frozen

\* a firing that notifies once for the due time and once more
NotifyTwice(f, nt) ==
    IF nt = None THEN f ELSE [f EXCEPT ![Unwrap(nt)] = @ + 2]

\* Daemon::notify: the side effects of the selected timer, once; nothing
\* without a selected timer
Notify(f, nt) ==
    IF nt = None THEN f ELSE [f EXCEPT ![Unwrap(nt)] = @ + 1]

\* the tick task with the instant it has read: let now = ...; daemon.lock()
TickTake(now) ==
    /\ UNCHANGED world
    /\ main_pc = "serving"
    /\ tick_pc = "sleep"
    /\ CanLock
    /\ \A i \in 1..Len(timers) : timers[i].prompts < MaxPrompts
    /\ lock' = Some(TickTask)
    /\ tick_pc' = "locked"
    /\ tick_now' = now
    /\ tick_pre' = [elapsed |-> elapsed,
                    delta |-> DurationSince(now, last_update),
                    next_timer_at |-> next_timer_at,
                    is_enabled |-> is_enabled, is_frozen |-> is_frozen,
                    last_update |-> last_update]
    /\ tick_log' = NoLog
    /\ UNCHANGED <<client_conn, activity_stream>>
    /\ UNCHANGED <<daemon, clock, main_pc, tick_path, client_pc, client_msg,
                   client_resp, fired, prev_tick, reset_from, commit>>

\* the tick task on a monotonic clock: let now = Instant::now()
TickLock == TickTake(clock)

\* Daemon::tick up to its call of reset's or the firing's update_timer
TickBody ==
    /\ UNCHANGED world
    /\ tick_pc = "locked"
    /\ LET delta == DurationSince(tick_now, last_update)
           it == config.input_tracking
           gap == it # None /\ SuspendGap(delta, Unwrap(it))
           since_input == SinceInput(get_unix_time, last_input)
           gap_reset == gap /\ elapsed > 0
           idle_reset == /\ ~gap
                         /\ it # None
                         /\ since_input >= Unwrap(it).reset_after
                         /\ elapsed > 0
           frozen == IF ~gap /\ it # None
                     THEN Frozen(is_frozen, since_input, Unwrap(it))
                     ELSE is_frozen
           advanced == IF Advancing(frozen, is_enabled)
                       THEN elapsed + delta ELSE elapsed
       IN /\ last_update' = LastUpdate(tick_now, last_update)
          /\ prev_tick' = tick_now
          /\ commit' = StaleResets(commit)
          /\ IF gap_reset \/ idle_reset
             THEN /\ elapsed' = 0
                  /\ timers' = ResetTimers(timers)
                  /\ fired' = NoFired
                  /\ reset_from' = Some(Schedule)
                  /\ tick_log' = [tick_log EXCEPT !.resets = @ + 1]
                  /\ tick_path' = IF gap_reset THEN "gap_reset" ELSE "idle_reset"
                  /\ tick_pc' = "update"
                  /\ UNCHANGED is_frozen
             ELSE /\ elapsed' = advanced
                  /\ is_frozen' = frozen
                  /\ timers' = timers
                  /\ reset_from' = reset_from
                  /\ IF advanced >= next_timer_at
                     THEN \* notify(), then update_timer()
                          /\ fired' = Notify(fired, next_timer)
                          /\ tick_log' = [tick_log EXCEPT !.fired = @ + 1]
                          /\ tick_path' = "fire"
                          /\ tick_pc' = "update"
                     ELSE /\ tick_pc' = "unlock"
                          /\ UNCHANGED <<fired, tick_log, tick_path>>
    /\ UNCHANGED <<client_conn, activity_stream>>
    /\ UNCHANGED <<config, next_timer_at, next_timer, is_enabled, last_input,
                   clock, lock, main_pc, tick_now, client_pc, client_msg,
                   client_resp, tick_pre>>

\* the update_timer call of the running tick (and reset's is_frozen = true)
TickUpdateTimer ==
    /\ UNCHANGED world
    /\ tick_pc = "update"
    /\ LET u == UpdateTimer(timers, elapsed, next_timer_at, next_timer)
       IN /\ timers' = u.timers
          /\ next_timer_at' = u.next_timer_at
          /\ next_timer' = u.next_timer
    /\ is_frozen' = FrozenAfterReset(tick_path, is_frozen)
    /\ tick_pc' = "unlock"
    /\ tick_path' = "none"
    /\ UNCHANGED <<client_conn, activity_stream>>
    /\ UNCHANGED <<config, elapsed, last_update, is_enabled, last_input, clock,
                   lock, main_pc, tick_now, client_pc, client_msg, client_resp,
                   history>>

\* drop(daemon); the task goes back to interval.tick().await
TickUnlock ==
    /\ UNCHANGED world
    /\ tick_pc = "unlock"
    /\ lock' = None
    /\ tick_pc' = "sleep"
    /\ tick_now' = 0
    /\ tick_pre' = NoTick
    /\ tick_log' = NoLog
    /\ reset_from' = None
    /\ UNCHANGED <<client_conn, activity_stream>>
    /\ UNCHANGED <<daemon, clock, main_pc, tick_path, client_pc,
                   client_msg, client_resp, fired, prev_tick, commit>>

\* ---------------------------------------------------------- client handlers
\* a Toggle that is acknowledged without flipping the flag
ToggledNot(enabled) == enabled

\* a Toggle that can only disable
ToggledOff(enabled) == FALSE

\* the expression !self.is_enabled of handle_msg
Toggled(enabled) == ~enabled

\* a status that reports the time left to the next firing
StatusNewRemaining(el, at) ==
    [kind |-> "Status", elapsed |-> el, next_timer |-> at - el]

\* Status::new(self.elapsed, self.next_timer_at)
StatusNew(el, at) == [kind |-> "Status", elapsed |-> el, next_timer |-> at]

ResponseOk == [kind |-> "Ok", elapsed |-> 0, next_timer |-> 0]

\* listener.accept_client() spawns handle_client on the lowest free slot;
\* its stream.recv() returns msg and it takes the lock
ClientLock(c, msg) ==
    /\ UNCHANGED world
    /\ main_pc = "serving"
    /\ client_pc[c] = "idle"
    /\ \A b \in Clients : b < c => client_pc[b] # "idle"
    /\ CanLock
    /\ lock' = Some(c)
    /\ client_pc' = [client_pc EXCEPT ![c] = "locked"]
    /\ client_msg' = [client_msg EXCEPT ![c] = msg]
    /\ client_conn' = [client_conn EXCEPT ![c] = "open"]
    /\ UNCHANGED activity_stream
    /\ UNCHANGED <<daemon, clock, main_pc, tick_pc, tick_now, tick_path,
                   client_resp, history>>

\* Daemon::handle_msg up to reset's call of update_timer
ClientHandleMsg(c) ==
    /\ UNCHANGED world
    /\ client_pc[c] = "locked"
    /\ CASE client_msg[c] = "Status" ->
              /\ client_resp' = [client_resp EXCEPT
                                   ![c] = StatusNew(elapsed, next_timer_at)]
              /\ client_pc' = [client_pc EXCEPT ![c] = "unlock"]
              /\ UNCHANGED <<elapsed, timers, is_enabled, fired, reset_from,
                             commit>>
         [] client_msg[c] = "Toggle" ->
              /\ is_enabled' = Toggled(is_enabled)
              /\ client_resp' = [client_resp EXCEPT ![c] = ResponseOk]
              /\ client_pc' = [client_pc EXCEPT ![c] = "unlock"]
              /\ commit' = [StaleToggles(commit) EXCEPT
                              ![c] = [state |-> "fresh",
                                      was_enabled |-> is_enabled]]
              /\ UNCHANGED <<elapsed, timers, fired, reset_from>>
         [] client_msg[c] = "Reset" ->
              /\ elapsed' = 0
              /\ timers' = ResetTimers(timers)
              /\ fired' = NoFired
              /\ reset_from' = Some(Schedule)
              /\ client_pc' = [client_pc EXCEPT ![c] = "update"]
              /\ commit' = StaleResets(commit)
              /\ UNCHANGED <<is_enabled, client_resp>>
    /\ UNCHANGED <<client_conn, activity_stream>>
    /\ UNCHANGED <<config, last_update, next_timer_at, next_timer, is_frozen,
                   last_input, clock, lock, main_pc, tick_pc, tick_now,
                   tick_path, client_msg, prev_tick, tick_pre, tick_log>>

\* the update_timer call that ends Daemon::reset, then IpcResponse::Ok
ClientUpdateTimer(c) ==
    /\ UNCHANGED world
    /\ client_pc[c] = "update"
    /\ LET u == UpdateTimer(timers, elapsed, next_timer_at, next_timer)
       IN /\ timers' = u.timers
          /\ next_timer_at' = u.next_timer_at
          /\ next_timer' = u.next_timer
    /\ client_resp' = [client_resp EXCEPT ![c] = ResponseOk]
    /\ client_pc' = [client_pc EXCEPT ![c] = "unlock"]
    /\ commit' = [commit EXCEPT ![c] = [state |-> "fresh",
                                        was_enabled |-> TRUE]]
    /\ UNCHANGED <<client_conn, activity_stream>>
    /\ UNCHANGED <<config, elapsed, last_update, is_enabled, is_frozen,
                   last_input, clock, lock, main_pc, tick_pc, tick_now,
                   tick_path, client_msg, fired, prev_tick, tick_pre,
                   tick_log, reset_from>>

\* the guard is dropped at the end of the block that computes resp
ClientUnlock(c) ==
    /\ UNCHANGED world
    /\ client_pc[c] = "unlock"
    /\ lock' = None
    /\ client_pc' = [client_pc EXCEPT ![c] = "send"]
    /\ reset_from' = None
    /\ UNCHANGED <<client_conn, activity_stream>>
    /\ UNCHANGED <<daemon, clock, main_pc, tick_pc, tick_now, tick_path,
                   client_msg, client_resp, fired, prev_tick, tick_pre,
                   tick_log, commit>>

\* a handler that keeps its stream for a further request
ClientSendKeeping(c) ==
    /\ UNCHANGED world
    /\ client_pc[c] = "send"
    /\ client_pc' = [client_pc EXCEPT ![c] = "idle"]
    /\ client_resp' = [client_resp EXCEPT ![c] = NoResp]
    /\ client_msg' = [client_msg EXCEPT ![c] = "none"]
    /\ commit' = [commit EXCEPT ![c] = NoCommit]
    /\ UNCHANGED <<daemon, clock, lock, main_pc, tick_pc, tick_now, tick_path,
                   client_conn, activity_stream, fired, prev_tick, tick_pre,
                   tick_log, reset_from>>

\* stream.send(resp); handle_client returns and drops the stream
ClientSend(c) ==
    /\ UNCHANGED world
    /\ client_pc[c] = "send"
    /\ client_pc' = [client_pc EXCEPT ![c] = "idle"]
    /\ client_conn' = [client_conn EXCEPT ![c] = "closed"]
    /\ UNCHANGED activity_stream
    /\ client_resp' = [client_resp EXCEPT ![c] = NoResp]
    /\ client_msg' = [client_msg EXCEPT ![c] = "none"]
    /\ commit' = [commit EXCEPT ![c] = NoCommit]
    /\ UNCHANGED <<daemon, clock, lock, main_pc, tick_pc, tick_now, tick_path,
                   fired, prev_tick, tick_pre, tick_log, reset_from>>

\* ------------------------------------------------------ activity ingestion
\* an activity message that also clears a client's disable
ActivityEnabling(t) ==
    /\ UNCHANGED world
    /\ main_pc = "serving"
    /\ config.input_tracking # None
    /\ activity_stream = "open"
    /\ CanLock
    /\ last_input' = t
    /\ is_enabled' = TRUE
    /\ UNCHANGED <<config, elapsed, last_update, next_timer_at, next_timer,
                   timers, is_frozen, clock, tasks, history>>

\* the activity branch of run's select!: daemon.last_input = activity.last_input
Activity(t) ==
    /\ UNCHANGED world
    /\ main_pc = "serving"
    /\ config.input_tracking # None
    /\ activity_stream = "open"
    /\ CanLock
    /\ last_input' = t
    /\ UNCHANGED <<config, elapsed, last_update, next_timer_at, next_timer,
                   timers, is_enabled, is_frozen, clock, tasks, history>>

\* the Err arm of the activity branch: recv fails on a lost connection,
\* the error is logged, the stream is kept and the loop goes on
ActivityError ==
    /\ UNCHANGED world
    /\ main_pc = "serving"
    /\ activity_stream \in {"open", "lost"}
    /\ activity_stream' = "lost"
    /\ UNCHANGED <<daemon, clock, lock, main_pc, tick_pc, tick_now, tick_path,
                   client_pc, client_msg, client_resp, client_conn, history>>

\* ------------------------------------------------------------ specification
Next ==
    \/ Elapse
    \/ Startup
    \/ TickLock
    \/ TickBody
    \/ TickUpdateTimer
    \/ TickUnlock
    \/ \E c \in Clients : \E msg \in IpcRequest : ClientLock(c, msg)
    \/ \E c \in Clients : ClientHandleMsg(c)
    \/ \E c \in Clients : ClientUpdateTimer(c)
    \/ \E c \in Clients : ClientUnlock(c)
    \/ \E c \in Clients : ClientSend(c)
    \/ \E t \in 0..clock : clock - t <= MaxLag /\ Activity(t)

Spec == Init /\ [][Next]_vars

\* -------------------------------------------- the schedule recomputation
\* update_timer and reset as functions of (catalog, timers, elapsed): the
\* daemon is constructed on a catalog, elapsed moves as the ticks move it,
\* and the recomputation is applied at every value it reaches
SchedInit ==
    /\ config \in {Config(ts, None) : ts \in Catalogs}
    /\ DaemonNew

\* elapsed += delta over one or several ticks
SchedAdvance(d) ==
    /\ UNCHANGED world
    /\ elapsed + d <= MaxElapsed
    /\ elapsed' = elapsed + d
    /\ main_pc' = "advanced"
    /\ UNCHANGED <<config, last_update, next_timer_at, next_timer, timers,
                   is_enabled, is_frozen, last_input, clock, lock, tick_pc,
                   tick_now, tick_path, client_pc, client_msg, client_resp,
                   client_conn, activity_stream, history>>

\* Daemon::update_timer
SchedUpdateTimer ==
    /\ UNCHANGED world
    /\ \A i \in 1..Len(timers) : timers[i].prompts < MaxPrompts
    /\ LET u == UpdateTimer(timers, elapsed, next_timer_at, next_timer)
       IN /\ timers' = u.timers
          /\ next_timer_at' = u.next_timer_at
          /\ next_timer' = u.next_timer
    /\ main_pc' = "scheduled"
    /\ UNCHANGED <<config, elapsed, last_update, is_enabled, is_frozen,
                   last_input, clock, lock, tick_pc, tick_now, tick_path,
                   client_pc, client_msg, client_resp, client_conn,
                   activity_stream, history>>

\* Daemon::reset
SchedReset ==
    /\ UNCHANGED world
    /\ elapsed > 0
    /\ LET u == Reset(timers, next_timer_at, next_timer)
       IN /\ timers' = u.timers
          /\ next_timer_at' = u.next_timer_at
          /\ next_timer' = u.next_timer
    /\ elapsed' = 0
    /\ main_pc' = "scheduled"
    /\ UNCHANGED <<config, last_update, is_enabled, is_frozen, last_input,
                   clock, lock, tick_pc, tick_now, tick_path, client_pc,
                   client_msg, client_resp, client_conn, activity_stream,
                   history>>

SchedNext ==
    \/ \E d \in 1..3 : SchedAdvance(d)
    \/ SchedUpdateTimer
    \/ SchedReset

SchedSpec == SchedInit /\ [][SchedNext]_vars

\* ------------------------------------------- loss of the activity feed
\* the daemon with activity tracking, whose connection to actived can fail
LossInit ==
    /\ config = Config(<<TimerShort, TimerLong>>, Some(InputTracking(2, 4)))
    /\ DaemonNew

LossNext == Next \/ ActivityError

LossSpec == LossInit /\ [][LossNext]_vars

\* ------------------------------------------- every file the loader accepts
\* the daemon on any configuration Config::load_or_create returns, the one
\* with a timer of interval "00:00" included
LoadInit ==
    /\ config \in Configs \cup {Config(<<TimerZero>>, None)}
    /\ DaemonNew

LoadSpec == LoadInit /\ [][Next]_vars

\* ------------------------------------------------------- the scenario run
\* the daemon alone on the catalog of the one 20-minute timer, no activity
\* tracking, no client: startup, then one tick per tick interval
ScenInit ==
    /\ config = Config(<<TimerScenario>>, None)
    /\ DaemonNew

\* interval.tick().await returns one TICK_INTERVAL after the last tick
ScenElapse ==
    /\ UNCHANGED world
    /\ main_pc = "serving"
    /\ tick_pc = "sleep"
    /\ last_update = clock
    /\ clock < config.timers[1].interval + ExtraTicks
    /\ clock' = clock + TICK_INTERVAL
    /\ UNCHANGED <<daemon, tasks, history>>

\* the tick task wakes once the interval has passed
ScenTickLock == clock = last_update + TICK_INTERVAL /\ TickLock

ScenNext ==
    \/ Startup
    \/ ScenElapse
    \/ ScenTickLock
    \/ TickBody
    \/ TickUpdateTimer
    \/ TickUnlock

ScenSpec == ScenInit /\ [][ScenNext]_vars

\* ============================================================ properties
\* a task is inside its critical section on the Daemon
TickInCS == tick_pc \in {"locked", "update", "unlock"}
ClientInCS(c) == client_pc[c] \in {"locked", "update", "unlock"}

\* no task is inside a critical section: the states other tasks can observe
Observable == main_pc = "serving" /\ lock = None

\* the running tick has completed Daemon::tick and not yet dropped the guard
TickDone == tick_pc = "unlock"

\* the step that runs Daemon::tick up to its first update_timer call
TickBodyStep == tick_pc = "locked" /\ tick_pc' # "locked"

\* a reset (request or tick) has completed and its guard is not yet dropped
ResetDone ==
    /\ reset_from # None
    /\ \/ TickDone
       \/ \E c \in Clients : client_pc[c] = "unlock"

\* the prompts of timer t (timers is re-sorted, so look it up)
PromptsOf(ts, t) ==
    IF \E i \in 1..Len(ts) : ts[i].timer = t
    THEN (CHOOSE x \in {ts[i] : i \in 1..Len(ts)} : x.timer = t).prompts
    ELSE 0

\* the smaller of two durations
Min(a, b) == IF a <= b THEN a ELSE b

\* the least time_left of the catalog at elapsed = 0
RECURSIVE FirstDue(_)
FirstDue(ts) ==
    IF Len(ts) = 1 THEN TimeLeft(ts[1], 0)
    ELSE Min(TimeLeft(ts[1], 0), FirstDue(Tail(ts)))

\* ---------------------------------------------------------------------- C1
\* C1: at most one of the tick task and the client handlers is inside a
\* critical section on the Daemon, the mutex names exactly that task, a
\* handler that is about to run finds no update_timer of another task
\* pending, and no Status response shows a half-applied firing (elapsed
\* past next_timer_at).
MutualExclusion ==
    /\ \A a, b \in Clients : a # b => ~(ClientInCS(a) /\ ClientInCS(b))
    /\ \A c \in Clients : ~(TickInCS /\ ClientInCS(c))
    /\ TickInCS <=> lock = Some(TickTask)
    /\ \A c \in Clients : ClientInCS(c) <=> lock = Some(c)
    /\ \A c \in Clients :
         client_pc[c] = "locked" =>
            /\ tick_pc # "update"
            /\ \A b \in Clients : client_pc[b] # "update"
    /\ tick_pc = "locked" => \A b \in Clients : client_pc[b] # "update"
    /\ \A c \in Clients :
         client_resp[c].kind = "Status" =>
            client_resp[c].elapsed <= client_resp[c].next_timer

\* a firing tick is half applied while a handler of another connection is
\* between its critical section and its response
MutualExclusionWitness ==
    /\ tick_pc = "update"
    /\ tick_path = "fire"
    /\ elapsed > next_timer_at
    /\ \E c \in Clients : client_pc[c] = "send"

\* ---------------------------------------------------------------------- C2
\* C2: a handler that is sending its response has released the lock; if
\* the request was a Toggle or a Reset its mutation has been committed, and
\* as long as no later tick or request overwrote it the Daemon shows it:
\* the flag is the flipped one, respectively elapsed = 0 with the schedule
\* recomputed from 0; a Status handler reports exactly that state.
ResponseAfterCommit ==
    /\ \A c \in Clients :
         client_pc[c] = "send" =>
            /\ lock # Some(c)
            /\ client_msg[c] \in {"Toggle", "Reset"} =>
                  /\ commit[c].state # "none"
                  /\ client_resp[c] = ResponseOk
            /\ client_msg[c] = "Toggle" /\ commit[c].state = "fresh" =>
                  is_enabled = ~commit[c].was_enabled
            /\ client_msg[c] = "Reset" /\ commit[c].state = "fresh" =>
                  /\ elapsed = 0
                  /\ timers # <<>> => next_timer_at = FirstDue(config.timers)
    /\ \A c \in Clients :
         client_pc[c] = "unlock" /\ client_msg[c] = "Status" =>
            client_resp[c] = StatusNew(elapsed, next_timer_at)

\* a Status request on another connection is serviced while the Reset
\* response is on its way and nothing has touched the schedule since
ResponseAfterCommitWitness ==
    \E c, b \in Clients :
        /\ c # b
        /\ client_pc[c] = "send"
        /\ client_msg[c] = "Reset"
        /\ commit[c].state = "fresh"
        /\ clock > 0
        /\ client_pc[b] = "unlock"
        /\ client_msg[b] = "Status"
        /\ client_resp[b].elapsed = 0

\* ---------------------------------------------------------------------- C3
\* C3 as stated: once the daemon is disabled, a tick leaves elapsed as it is.
DisabledTickKeepsElapsed ==
    [][TickBodyStep /\ ~is_enabled => elapsed' = elapsed]_vars

\* C3 as amended: elapsed grows only in a tick that finds the daemon enabled
\* and not frozen at its advancement step; a tick that reaches that step
\* disabled or frozen leaves elapsed unchanged, a tick that resets sets it to
\* 0, and a tick of the enabled, not frozen daemon adds its delta.
ElapsedAdvancesOnlyWhenActive ==
    [][/\ elapsed' > elapsed =>
            TickBodyStep /\ is_enabled /\ ~is_frozen' /\ tick_log'.resets = 0
       /\ TickBodyStep =>
            IF tick_log'.resets = 1 THEN elapsed' = 0
            ELSE IF is_enabled /\ ~is_frozen'
                 THEN elapsed' = elapsed + tick_pre.delta
                 ELSE elapsed' = elapsed
      ]_vars

\* a tick with a positive delta has left a positive elapsed alone because
\* the daemon is disabled
ElapsedAdvancesOnlyWhenActiveWitness ==
    /\ TickDone
    /\ ~is_enabled
    /\ ~is_frozen
    /\ tick_pre.delta > 0
    /\ elapsed > 0
    /\ elapsed = tick_pre.elapsed

\* ---------------------------------------------------------------------- C4
\* C4 as stated: a tick of the frozen daemon never changes elapsed.
FrozenTickKeepsElapsed ==
    [][TickBodyStep /\ is_frozen /\ is_frozen' => elapsed' = elapsed]_vars

\* C4 as amended: a tick that stays frozen never increases elapsed (it keeps
\* it, or a full reset zeroes it); every tick refreshes last_update, so the
\* first advancing tick adds only the time since the previous tick.
FreezeTransparency ==
    [][TickBodyStep =>
         /\ last_update' = tick_now
         /\ is_frozen' => elapsed' \in {elapsed, 0}
         /\ is_frozen' /\ tick_log'.resets = 0 => elapsed' = elapsed
         /\ elapsed' > elapsed => elapsed' = elapsed + (tick_now - prev_tick)
      ]_vars

\* a tick found the daemon frozen at a positive elapsed, un-froze it and
\* added its own delta, which is less than the time since the freeze began
FreezeTransparencyWitness ==
    /\ TickDone
    /\ tick_pre.is_frozen
    /\ ~is_frozen
    /\ tick_pre.elapsed > 0
    /\ tick_pre.delta > 0
    /\ elapsed = tick_pre.elapsed + tick_pre.delta
    /\ elapsed < clock

ResetIdempotent ==
    LET once == Reset(timers, next_timer_at, next_timer)
        twice == Reset(once.timers, once.next_timer_at, once.next_timer)
    IN twice = once

\* a reset has completed on a schedule that differed from the fresh one in
\* elapsed, in the order of the timers and in the counts
ResetIdempotentWitness ==
    /\ ResetDone
    /\ Len(timers) = 2
    /\ Unwrap(reset_from).elapsed > 1
    /\ Unwrap(reset_from).timers[1].timer # timers[1].timer
    /\ Unwrap(reset_from).timers[2].prompts >= 1

\* ---------------------------------------------------------------------- C7
\* C7: a step lowers the prompts of a timer only if it is the zeroing step
\* of a full reset, which sets the prompts of every timer to 0 (and elapsed
\* to 0); ticks without a reset, Toggle and Status never lower a count.
PromptsOnlyLoweredByReset ==
    [][(\E t \in AllTimers : PromptsOf(timers', t) < PromptsOf(timers, t)) =>
          /\ reset_from = None
          /\ reset_from' = Some(Schedule)
          /\ elapsed' = 0
          /\ \A t \in AllTimers : PromptsOf(timers', t) = 0
      ]_vars

\* a firing tick without a reset has raised a count that was already 2
PromptsOnlyLoweredByResetWitness ==
    /\ TickDone
    /\ tick_log.fired = 1
    /\ tick_log.resets = 0
    /\ \E i \in 1..Len(timers) : timers[i].prompts >= 3

NextFireNotBeforeElapsed ==
    timers # <<>> =>
        /\ Observable => next_timer_at >= elapsed
        /\ TickDone => next_timer_at >= elapsed
        /\ \A c \in Clients :
              /\ client_pc[c] = "unlock" => next_timer_at >= elapsed
              /\ client_resp[c].kind = "Status" =>
                    client_resp[c].next_timer >= client_resp[c].elapsed

\* a tick has carried elapsed past next_timer_at and has recomputed it
NextFireNotBeforeElapsedWitness ==
    /\ TickDone
    /\ tick_log.fired = 1
    /\ elapsed > tick_pre.next_timer_at
    /\ next_timer_at > elapsed

\* --------------------------------------------------------------------- C10
\* C10: with activity tracking configured, a completed tick whose delta was
\* at least reset_after and that started with elapsed > 0 has performed
\* exactly one full reset and no firing, and elapsed is 0.
SuspendGapResets ==
    (/\ tick_pc \in {"update", "unlock"}
     /\ config.input_tracking # None
     /\ tick_pre.elapsed > 0)
    => (tick_pre.delta >= Unwrap(config.input_tracking).reset_after =>
           /\ elapsed = 0
           /\ tick_log.resets = 1
           /\ tick_log.fired = 0
           /\ tick_pc = "update" => tick_path = "gap_reset")

\* a tick with delta = reset_after has completed on a positive elapsed while
\* the last input is recent
SuspendGapResetsWitness ==
    /\ TickDone
    /\ config.input_tracking # None
    /\ tick_pre.elapsed > 0
    /\ tick_pre.delta = Unwrap(config.input_tracking).reset_after
    /\ clock - last_input < Unwrap(config.input_tracking).pause_after
    /\ elapsed = 0

\* --------------------------------------------------------------------- C11
\* C11: with activity tracking configured, a completed tick whose delta was
\* at least reset_after leaves elapsed no larger than it found it, whatever
\* elapsed was before the tick (0 included).
SuspendGapNeverCredited ==
    (/\ TickDone
     /\ config.input_tracking # None
     /\ tick_pre.delta >= Unwrap(config.input_tracking).reset_after)
    => elapsed <= tick_pre.elapsed

\* --------------------------------------------------------------------- C12
\* what the tick body is about to observe: its delta and the time since the
\* last input
TickDelta == tick_now - last_update
ActivityElapsed == get_unix_time - last_input

\* the tick body is about to run on a delta below the suspend threshold
NoSuspendGap ==
    /\ config.input_tracking # None
    /\ ~SuspendGap(TickDelta, Unwrap(config.input_tracking))

\* C12: a tick that is not a suspend gap and that finds activity_elapsed >=
\* reset_after with elapsed > 0 zeroes elapsed and every prompts count,
\* recomputes the schedule, sets is_frozen and ends without advancing or
\* firing; from then on every step leaves elapsed = 0 and is_frozen set,
\* except a tick that observes activity_elapsed below the recovery threshold.
InactivityReset ==
    [][/\ (/\ TickBodyStep
           /\ NoSuspendGap
           /\ ActivityElapsed >= Unwrap(config.input_tracking).reset_after
           /\ elapsed > 0)
          => /\ elapsed' = 0
             /\ \A i \in 1..Len(timers') : timers'[i].prompts = 0
             /\ tick_pc' = "update"
             /\ tick_path' = "idle_reset"
             /\ tick_log' = [resets |-> 1, fired |-> 0]
       /\ (tick_pc = "update" /\ tick_path = "idle_reset" /\ tick_pc' = "unlock")
          => /\ is_frozen'
             /\ elapsed' = 0
             /\ timers' # <<>> => next_timer_at' = FirstDue(config.timers)
             /\ tick_log' = [resets |-> 1, fired |-> 0]
       /\ (is_frozen /\ elapsed = 0)
          => \/ is_frozen' /\ elapsed' = 0
             \/ /\ TickBodyStep
                /\ NoSuspendGap
                /\ ActivityElapsed < UNFREEZE_BELOW
      ]_vars

\* an inactivity reset has completed: the tick found a positive elapsed on a
\* daemon that was not frozen, its delta was below reset_after, and it ends
\* frozen at elapsed = 0 with the last input at least reset_after ago
InactivityResetWitness ==
    /\ TickDone
    /\ reset_from # None
    /\ config.input_tracking # None
    /\ tick_pre.delta < Unwrap(config.input_tracking).reset_after
    /\ clock - last_input >= Unwrap(config.input_tracking).reset_after
    /\ tick_pre.elapsed > 0
    /\ ~tick_pre.is_frozen
    /\ is_frozen
    /\ elapsed = 0

\* --------------------------------------------------------------------- C13
\* C13: with activity tracking configured, a tick that does not reset turns
\* a not-frozen daemon frozen iff activity_elapsed > pause_after, turns a
\* frozen daemon un-frozen iff activity_elapsed is below the recovery
\* threshold, and leaves is_frozen unchanged in every other case.
FreezeRule ==
    [][(/\ TickBodyStep
        /\ config.input_tracking # None
        /\ tick_path' \notin {"gap_reset", "idle_reset"})
       => /\ ~is_frozen =>
               (is_frozen' <=>
                   ActivityElapsed > Unwrap(config.input_tracking).pause_after)
          /\ is_frozen =>
               (~is_frozen' <=> ActivityElapsed < UNFREEZE_BELOW)
      ]_vars

\* --------------------------------------------------------------------- C14
\* handler c runs handle_msg on a Toggle request in this step
ToggleStep(c) ==
    /\ client_pc[c] = "locked"
    /\ client_msg[c] = "Toggle"
    /\ client_pc'[c] = "unlock"

\* the tick task moves in this step
TickStep == tick_pc' # tick_pc

\* C14: is_enabled changes only in the Toggle of a handler and is_frozen
\* only in a step of the tick; no step of the tick and no activity message
\* changes is_enabled, and no Toggle changes is_frozen.
FlagsIndependent ==
    [][/\ is_enabled' # is_enabled => \E c \in Clients : ToggleStep(c)
       /\ is_frozen' # is_frozen => TickStep
       /\ TickStep => is_enabled' = is_enabled
       /\ last_input' # last_input =>
              is_enabled' = is_enabled /\ is_frozen' = is_frozen
       /\ (\E c \in Clients : ToggleStep(c)) => is_frozen' = is_frozen
      ]_vars

\* a tick has cleared the freeze of a disabled daemon after new activity,
\* and the daemon is still disabled
FlagsIndependentWitness ==
    /\ TickDone
    /\ tick_pre.is_frozen
    /\ ~tick_pre.is_enabled
    /\ ~is_frozen
    /\ ~is_enabled
    /\ last_input > 0

\* --------------------------------------------------------------------- C15
\* handler c runs a step of Daemon::reset for a Reset request
ResetRequestStep(c) ==
    /\ client_msg[c] = "Reset"
    /\ client_pc[c] \in {"locked", "update"}
    /\ client_pc'[c] # client_pc[c]

\* C15: a Reset request and a suspend-gap reset leave is_enabled and
\* is_frozen as they were; the inactivity reset sets is_frozen and leaves
\* is_enabled as it was.  A completed reset of the tick is compared with the
\* flags the tick started from.
ResetKeepsFlags ==
    [][/\ (\E c \in Clients : ResetRequestStep(c))
          => is_enabled' = is_enabled /\ is_frozen' = is_frozen
       /\ (TickBodyStep /\ tick_path' \in {"gap_reset", "idle_reset"})
          => is_enabled' = is_enabled /\ is_frozen' = is_frozen
       /\ (tick_pc = "update" /\ tick_pc' = "unlock" /\ tick_path = "gap_reset")
          => /\ is_enabled' = tick_pre.is_enabled
             /\ is_frozen' = tick_pre.is_frozen
       /\ (tick_pc = "update" /\ tick_pc' = "unlock" /\ tick_path = "idle_reset")
          => /\ is_enabled' = tick_pre.is_enabled
             /\ is_frozen'
      ]_vars

\* a suspend-gap reset has completed on a disabled, not frozen daemon whose
\* last input is longer ago than pause_after: both flags are as before
ResetKeepsFlagsWitness ==
    /\ TickDone
    /\ reset_from # None
    /\ config.input_tracking # None
    /\ tick_pre.delta >= Unwrap(config.input_tracking).reset_after
    /\ clock - last_input > Unwrap(config.input_tracking).pause_after
    /\ ~tick_pre.is_enabled
    /\ ~tick_pre.is_frozen
    /\ ~is_enabled
    /\ ~is_frozen

\* --------------------------------------------------------------------- C16
\* C16: a Toggle request flips is_enabled, answers Ok and leaves every other
\* field of the Daemon unchanged; a Toggle that follows another handler's
\* Toggle with no flip in between puts is_enabled back to the value it had
\* before the first.
ToggleFlipsOnlyEnabled ==
    [][\A c \in Clients :
          ToggleStep(c) =>
             /\ is_enabled' = ~is_enabled
             /\ client_resp'[c] = ResponseOk
             /\ UNCHANGED <<config, elapsed, last_update, next_timer_at,
                            next_timer, timers, is_frozen, last_input>>
             /\ \A b \in Clients \ {c} :
                   (client_msg[b] = "Toggle" /\ commit[b].state = "fresh")
                   => is_enabled' = commit[b].was_enabled
      ]_vars

\* the second of two Toggles has run on a started schedule: the first found
\* the daemon enabled, the second found it disabled and enabled it again
ToggleFlipsOnlyEnabledWitness ==
    \E c \in Clients : \E b \in Clients \ {c} :
        /\ client_pc[c] = "unlock"
        /\ client_msg[c] = "Toggle"
        /\ ~commit[c].was_enabled
        /\ is_enabled
        /\ client_pc[b] = "send"
        /\ client_msg[b] = "Toggle"
        /\ commit[b].state = "stale"
        /\ commit[b].was_enabled
        /\ elapsed > 0

\* --------------------------------------------------------------------- C17
\* handler c runs handle_msg on a Status request in this step
StatusStep(c) ==
    /\ client_pc[c] = "locked"
    /\ client_msg[c] = "Status"
    /\ client_pc'[c] = "unlock"

\* C17: a Status request answers with the pair (elapsed, next_timer_at) of
\* the Daemon and changes no field of it; the Daemon does not change between
\* the handler's lock and its handle_msg, so the pair is the one held when
\* the lock was taken, and the response is sent as it was computed.
StatusIsSnapshot ==
    [][\A c \in Clients :
          /\ StatusStep(c) =>
                /\ client_resp'[c] = [kind |-> "Status", elapsed |-> elapsed,
                                      next_timer |-> next_timer_at]
                /\ UNCHANGED daemon
          /\ (client_pc[c] = "locked" /\ client_pc'[c] = "locked")
                => UNCHANGED daemon
          /\ (client_pc[c] = "unlock" /\ client_pc'[c] \in {"unlock", "send"})
                => client_resp'[c] = client_resp[c]
          /\ (client_pc[c] = "send" /\ client_pc'[c] = "send")
                => client_resp'[c] = client_resp[c]
      ]_vars

\* a Status request has been answered on a running schedule
StatusIsSnapshotWitness ==
    \E c \in Clients :
        /\ client_pc[c] = "unlock"
        /\ client_msg[c] = "Status"
        /\ client_resp[c].kind = "Status"
        /\ client_resp[c].elapsed = elapsed
        /\ client_resp[c].next_timer = next_timer_at
        /\ elapsed > 0
        /\ next_timer_at > elapsed
        /\ next_timer_at < DURATION_MAX

\* --------------------------------------------------------------------- C18
\* handler c sends its response in this step
SendStep(c) == client_pc[c] = "send" /\ client_pc'[c] # "send"

\* the response handle_msg gives to a request
ResponseKind(msg) == IF msg = "Status" THEN "Status" ELSE "Ok"

\* the steps handler c takes between its lock and its return
HandlerStep(c) ==
    \/ ClientHandleMsg(c)
    \/ ClientUpdateTimer(c)
    \/ ClientUnlock(c)
    \/ ClientSend(c)

\* C18 as stated: the response to a request is the one its handler sends,
\* and after the send the connection is still open for a further request.
ConnectionStaysOpen ==
    [][\A c \in Clients :
          SendStep(c) =>
             /\ client_resp[c].kind = ResponseKind(client_msg[c])
             /\ client_conn'[c] = "open"
      ]_vars

\* C18: every request received on a connection gets exactly one response:
\* its handler is never blocked by another task once it holds the request
\* and the lock, it sends the response handle_msg computed for the request,
\* and with the send it returns and drops the stream, so the connection is
\* open exactly while its one request is being served and a further request
\* comes in on a new connection.
OneRequestPerConnection ==
    [][\A c \in Clients :
          /\ client_conn[c] = "open" <=> client_pc[c] # "idle"
          /\ client_conn[c] = "open" => ENABLED HandlerStep(c)
          /\ (client_conn[c] = "open" /\ client_conn'[c] = "open")
                => client_msg'[c] = client_msg[c]
          /\ SendStep(c) =>
                /\ client_resp[c].kind = ResponseKind(client_msg[c])
                /\ client_conn'[c] = "closed"
                /\ client_pc'[c] = "idle"
          /\ client_conn[c] # client_conn'[c] =>
                \/ SendStep(c)
                \/ client_pc[c] = "idle" /\ client_pc'[c] = "locked"
      ]_vars

\* a Toggle has been answered and its connection is closed (the daemon is
\* disabled and no open connection carries a Toggle); the Status request of
\* a later connection has its response ready to send
OneRequestPerConnectionWitness ==
    /\ ~is_enabled
    /\ client_conn[1] = "open"
    /\ client_pc[1] = "send"
    /\ client_msg[1] = "Status"
    /\ client_resp[1].kind = "Status"
    /\ client_conn[2] = "closed"
    /\ client_pc[2] = "idle"

\* --------------------------------------------------------------------- C19
\* the largest value time_left can take for a timer at an elapsed value
TimeLeftBound(timer, el) ==
    IF timer.initial_delay # None /\ el <= Unwrap(timer.initial_delay)
    THEN Unwrap(timer.initial_delay)
    ELSE timer.interval

\* the timers of a sequence of TimerState
TimersOf(ts) == {ts[i].timer : i \in 1..Len(ts)}

\* C19: applied to a catalog of N >= 1 timers at any elapsed value,
\* update_timer keeps the catalog, selects one of its timers whose raw
\* time_left is minimal, computes for every timer a time_left between 0 and
\* the timer's interval (its initial_delay while before it), and sets
\* next_timer_at to elapsed plus the wait: the selected time_left scaled by
\* (1 / (1 + decline)) ^ prompts, with the prompts the timer had before the
\* call.  The state a recomputation leaves holds the same selection.
UpdateTimerSelectsMinimum ==
    LET u == UpdateTimer(timers, elapsed, next_timer_at, next_timer)
        sel == u.timers[1].timer
        p == PromptsOf(timers, sel)
        wait == (TimeLeft(sel, elapsed) * Pow(sel.decline.den, p))
                    \div Pow(sel.decline.den + sel.decline.num, p)
    IN
    /\ Len(u.timers) = Len(config.timers)
    /\ TimersOf(u.timers) = TimersOf(timers)
    /\ u.next_timer = Some(sel)
    /\ \A t \in TimersOf(timers) :
          TimeLeft(sel, elapsed) <= TimeLeft(t, elapsed)
    /\ \A i \in 1..Len(u.timers) :
          /\ u.timers[i].time_left = TimeLeft(u.timers[i].timer, elapsed)
          /\ u.timers[i].time_left >= 0
          /\ u.timers[i].time_left <= TimeLeftBound(u.timers[i].timer, elapsed)
    /\ u.next_timer_at = elapsed + wait
    /\ wait <= TimeLeft(sel, elapsed)
    /\ main_pc = "scheduled" =>
          /\ next_timer = Some(timers[1].timer)
          /\ \A i \in 1..Len(timers) :
                timers[1].time_left <= timers[i].time_left
          /\ next_timer_at >= elapsed
          /\ next_timer_at <= elapsed + timers[1].time_left

\* a recomputation on a catalog of three timers at a positive elapsed has
\* selected a timer for the second time or later, another timer is due
\* strictly later, and the decline has shortened the selected timer's wait
UpdateTimerSelectsMinimumWitness ==
    /\ main_pc = "scheduled"
    /\ Len(timers) = 3
    /\ elapsed > 0
    /\ timers[1].time_left < timers[3].time_left
    /\ timers[1].prompts >= 2
    /\ next_timer_at < elapsed + timers[1].time_left
    /\ next_timer_at > elapsed

\* --------------------------------------------------------------------- C20
\* the elapsed value the periodic phase of a timer is counted from
Anchor(timer) ==
    IF timer.initial_delay # None THEN Unwrap(timer.initial_delay) ELSE 0

\* d is one of anchor, anchor + interval, anchor + 2 * interval, ...
DuePoint(timer, d) ==
    d >= Anchor(timer) /\ (d - Anchor(timer)) % timer.interval = 0

\* C20: the raw time_left of every timer is initial_delay - elapsed while an
\* initial delay is set and elapsed <= initial_delay, and otherwise interval
\* - ((elapsed - anchor) mod interval) with the anchor at the end of the
\* delay (0 without one); elapsed + time_left is therefore one of anchor,
\* anchor + interval, anchor + 2 * interval, ..., with none of them strictly
\* between elapsed and it.  A recomputation stores exactly these values.
TimeLeftAnchored ==
    \A i \in 1..Len(timers) :
        LET timer == timers[i].timer
            left == TimeLeft(timer, elapsed)
            due == elapsed + left
        IN /\ IF timer.initial_delay # None
                 /\ elapsed <= Unwrap(timer.initial_delay)
              THEN left = Unwrap(timer.initial_delay) - elapsed
              ELSE left = timer.interval
                           - ((elapsed - Anchor(timer)) % timer.interval)
           /\ DuePoint(timer, due)
           /\ \A d \in (elapsed + 1)..(due - 1) : ~DuePoint(timer, d)
           /\ main_pc = "scheduled" => timers[i].time_left = left

\* a recomputation has run in the second period of a timer with an initial
\* delay, part-way through the period
TimeLeftAnchoredWitness ==
    /\ main_pc = "scheduled"
    /\ \E i \in 1..Len(timers) :
          /\ timers[i].timer.initial_delay # None
          /\ elapsed > Unwrap(timers[i].timer.initial_delay)
                          + timers[i].timer.interval
          /\ timers[i].time_left < timers[i].timer.interval
          /\ timers[i].time_left = TimeLeft(timers[i].timer, elapsed)

\* --------------------------------------------------------------------- C21
\* timer t is due no later than timer s at elapsed value el, the longer
\* interval winning a tie
DueFirst(t, s, el) ==
    \/ TimeLeft(t, el) < TimeLeft(s, el)
    \/ TimeLeft(t, el) = TimeLeft(s, el) /\ t.interval >= s.interval

\* C21: whatever the order of the catalog and the order earlier
\* recomputations left in the timers vector, update_timer selects the timer
\* that is due first, and among timers with the same raw time_left the one
\* with the larger interval; the rest of the vector is ranked the same way.
TieBreakByInterval ==
    LET u == UpdateTimer(timers, elapsed, next_timer_at, next_timer)
    IN /\ \A t \in TimersOf(timers) :
             DueFirst(Unwrap(u.next_timer), t, elapsed)
       /\ \A i, j \in 1..Len(u.timers) :
             i < j => DueFirst(u.timers[i].timer, u.timers[j].timer, elapsed)
       /\ \A t \in TimersOf(timers) :
             (/\ t # Unwrap(u.next_timer)
              /\ TimeLeft(t, elapsed) = TimeLeft(Unwrap(u.next_timer), elapsed))
             => t.interval < Unwrap(u.next_timer).interval

\* a recomputation has met a tie at a positive elapsed: the selected timer
\* has the larger interval, the catalog lists it behind the other timer,
\* and an earlier recomputation had selected the other timer
TieBreakByIntervalWitness ==
    /\ main_pc = "scheduled"
    /\ Len(timers) = 2
    /\ elapsed > 0
    /\ timers[1].time_left = timers[2].time_left
    /\ timers[1].timer.interval > timers[2].timer.interval
    /\ config.timers[1] = timers[2].timer
    /\ timers[2].prompts >= 1

\* --------------------------------------------------------------------- C22
\* C22: update_timer ranks by the raw time_left and stores the raw time_left
\* of every timer, the selected one included; the decline multiplier enters
\* next_timer_at only, with the decline and the prompts of the selected
\* timer; the prompts of the selected timer go up by exactly 1 and the
\* prompts of every other timer stay as they were.
DeclineOnlyOnSelected ==
    LET u == UpdateTimer(timers, elapsed, next_timer_at, next_timer)
        sel == Unwrap(u.next_timer)
        p == PromptsOf(timers, sel)
    IN /\ \A t \in TimersOf(timers) :
             PromptsOf(u.timers, t) =
                 IF t = sel THEN PromptsOf(timers, t) + 1
                 ELSE PromptsOf(timers, t)
       /\ \A i \in 1..Len(u.timers) :
             u.timers[i].time_left = TimeLeft(u.timers[i].timer, elapsed)
       /\ \A i, j \in 1..Len(u.timers) :
             i < j => u.timers[i].time_left <= u.timers[j].time_left
       /\ (u.next_timer_at - elapsed) * Pow(sel.decline.den + sel.decline.num, p)
             <= TimeLeft(sel, elapsed) * Pow(sel.decline.den, p)
       /\ (u.next_timer_at - elapsed + 1)
                * Pow(sel.decline.den + sel.decline.num, p)
             > TimeLeft(sel, elapsed) * Pow(sel.decline.den, p)

\* a recomputation has selected a declining timer for the second time or
\* later and shortened its wait, while another timer that was selected
\* before keeps its count and all stored time_left values are raw
DeclineOnlyOnSelectedWitness ==
    /\ main_pc = "scheduled"
    /\ Len(timers) = 3
    /\ timers[1].timer.decline.num > 0
    /\ timers[1].prompts >= 2
    /\ next_timer_at < elapsed + timers[1].time_left
    /\ \E i \in 2..3 : timers[i].prompts >= 1 /\ timers[i].timer.decline.num > 0
    /\ \A i \in 1..3 : timers[i].time_left = TimeLeft(timers[i].timer, elapsed)

\* --------------------------------------------------------------------- C23
\* C23: the wait update_timer adds to elapsed is the raw time_left of the
\* selected timer times (1 / (1 + decline)) ^ prompts, with the prompts the
\* timer had before the call.  On the catalog of the one 60-minute timer
\* with decline 0.5, the recomputation at the first firing (elapsed = one
\* interval, prompts = 1) waits two thirds of the interval, so the second
\* firing is due at five thirds of the interval.
AdjustedWait ==
    LET u == UpdateTimer(timers, elapsed, next_timer_at, next_timer)
        sel == Unwrap(u.next_timer)
        p == PromptsOf(timers, sel)
    IN /\ u.next_timer_at =
             elapsed + (TimeLeft(sel, elapsed) * Pow(sel.decline.den, p))
                          \div Pow(sel.decline.den + sel.decline.num, p)
       /\ (/\ config.timers = <<TimerHour>>
           /\ elapsed = TimerHour.interval
           /\ timers[1].prompts = 1)
          => /\ 3 * (u.next_timer_at - elapsed) = 2 * TimerHour.interval
             /\ 3 * u.next_timer_at = 5 * TimerHour.interval
       /\ (/\ main_pc = "scheduled"
           /\ config.timers = <<TimerHour>>
           /\ elapsed = TimerHour.interval
           /\ timers[1].prompts = 2)
          => 3 * next_timer_at = 5 * TimerHour.interval

\* the recomputation of the first firing of the 60-minute timer has run
AdjustedWaitWitness ==
    /\ main_pc = "scheduled"
    /\ config.timers = <<TimerHour>>
    /\ elapsed = TimerHour.interval
    /\ timers[1].prompts = 2
    /\ next_timer_at = 10

\* --------------------------------------------------------------------- C24
\* the wait update_timer computes for a timer with raw time_left left that
\* has been selected p times
Wait(timer, left, p) ==
    DeclinedInterval([time_left |-> left, prompts |-> p, timer |-> timer])

\* the timers of the catalog that decline and are not due at this elapsed
Declining ==
    {t \in TimersOf(timers) : t.decline.num > 0 /\ TimeLeft(t, elapsed) > 0}

DeclineZeroIsNoOp ==
    LET u == UpdateTimer(timers, elapsed, next_timer_at, next_timer)
        sel == Unwrap(u.next_timer)
    IN /\ \A t \in TimersOf(timers) :
             t.decline.num = 0 =>
                \A p \in 0..MaxPrompts : \A left \in 0..t.interval :
                    Wait(t, left, p) = left
       /\ sel.decline.num = 0 =>
             /\ u.next_timer_at = elapsed + TimeLeft(sel, elapsed)
             /\ u.next_timer_at > elapsed
             /\ (u.next_timer_at - Anchor(sel)) % sel.interval = 0
             /\ u.next_timer_at - elapsed <= sel.interval
       /\ (main_pc = "scheduled" /\ timers[1].timer.decline.num = 0) =>
             next_timer_at = elapsed + timers[1].time_left

\* a timer without decline has been selected for the fourth time, a whole
\* interval before its next firing
DeclineZeroIsNoOpWitness ==
    /\ main_pc = "scheduled"
    /\ timers[1].timer.decline.num = 0
    /\ timers[1].prompts >= 4
    /\ elapsed >= 2 * timers[1].timer.interval
    /\ elapsed % timers[1].timer.interval = 0
    /\ next_timer_at = elapsed + timers[1].timer.interval

\* --------------------------------------------------------------------- C26
\* what the scenario run holds at every point, up to the count the timer
\* is left with after its firing
ScenarioRun(prompts_after) ==
    LET t == config.timers[1]
    IN /\ is_enabled /\ ~is_frozen
       /\ (tick_pc \in {"sleep", "unlock"} /\ last_update = clock) =>
             elapsed = clock
       /\ fired[t] = IF elapsed >= t.interval THEN 1 ELSE 0
       /\ tick_log.fired = 1 => elapsed = t.interval
       /\ (main_pc = "serving" /\ elapsed < t.interval) =>
             next_timer_at = t.interval
       /\ (tick_pc \in {"sleep", "unlock"} /\ elapsed >= t.interval) =>
             /\ timers[1].prompts = prompts_after
             /\ next_timer_at = 2 * t.interval

LastInputNeverDecreases ==
    [][last_input' >= last_input]_vars

\* --------------------------------------------------------------------- C28
\* C28: once the connection to actived is lost the daemon goes on serving,
\* and no step of a later tick freezes it or starts an inactivity reset on
\* the last_input it still holds.
FeedLossDegrades ==
    [][activity_stream = "lost" =>
          /\ main_pc' = "serving"
          /\ TickStep =>
                /\ ~is_frozen => ~is_frozen'
                /\ tick_path' # "idle_reset"
      ]_vars

\* --------------------------------------------------------------------- C29
\* C29: a daemon constructed on an empty catalog does not get past startup:
\* whenever the daemon is serving, and whenever the tick task runs, a timer
\* is selected.
EmptyCatalogIsFatal ==
    /\ main_pc = "serving" => timers # <<>> /\ next_timer # None
    /\ TickInCS => next_timer # None

\* --------------------------------------------------------------------- C30
\* C30: no loaded configuration holds a timer with a zero interval, so
\* update_timer is never reached with one: the daemon never panics in the
\* remainder, and past startup every timer has a positive interval.
ZeroIntervalRejected ==
    /\ main_pc # "panicked"
    /\ main_pc # "new" =>
          \A i \in 1..Len(timers) : timers[i].timer.interval > 0


\* --------------------------------------------------------------------- C31
\* the tick task on a clock that is not monotonic: Instant::now() returns an
\* instant earlier than the one the previous tick stored
TickLockEarlier ==
    /\ elapsed < Horizon
    /\ \E n \in 0..(last_update - 1) : TickTake(n)

\* the daemon without clients, ticking on a clock that can read backwards
AnomalyNext ==
    \/ Elapse
    \/ Startup
    \/ TickLock
    \/ TickLockEarlier
    \/ TickBody
    \/ TickUpdateTimer
    \/ TickUnlock
    \/ \E t \in 0..clock : clock - t <= MaxLag /\ Activity(t)

AnomalySpec == Init /\ [][AnomalyNext]_vars

\* C31: a tick called with now earlier than last_update takes delta = 0: it
\* ends normally and leaves elapsed as it was unless it is an inactivity
\* reset; and no tick at all lowers elapsed except by a reset to zero.
ClockAnomalyClamped ==
    [][TickBodyStep =>
          /\ tick_pc' \in {"update", "unlock"}
          /\ last_update' = tick_now
          /\ tick_now < last_update =>
                \/ elapsed' = elapsed
                \/ elapsed' = 0 /\ tick_path' = "idle_reset"
          /\ \/ elapsed' >= elapsed
             \/ elapsed' = 0 /\ tick_path' \in {"gap_reset", "idle_reset"}]_vars

\* an enabled, unfrozen daemon with elapsed > 0 has completed a tick whose
\* now was earlier than last_update, and elapsed is what it was
ClockAnomalyClampedWitness ==
    /\ TickDone
    /\ tick_now < tick_pre.last_update
    /\ tick_pre.elapsed > 0
    /\ is_enabled /\ ~is_frozen
    /\ elapsed = tick_pre.elapsed
    /\ last_update = tick_now

\* --------------------------------------------------------------------- C32
\* the notify() calls made so far, over all timers
RECURSIVE SumFired(_, _)
SumFired(f, ts) ==
    IF ts = {} THEN 0
    ELSE LET t == CHOOSE x \in ts : TRUE
         IN f[t] + SumFired(f, ts \ {t})

\* the step in which a task calls notify(), which hands the notification,
\* the sound and the command to their threads
NotifyStep == SumFired(fired', AllTimers) > SumFired(fired, AllTimers)

\* C32: the side effects of a firing are dispatched by a task that does not
\* hold the lock on the Daemon, and a handler sends its response after it
\* has dropped the guard.
LockSectionsPure ==
    [][/\ NotifyStep => lock # Some(TickTask)
       /\ \A c \in Clients : SendStep(c) => lock # Some(c)]_vars

\* --------------------------------------------------------------------- C33
\* listener.accept_client() returns a stream and handle_client is spawned
\* on it; the handler waits in stream.recv()
ClientAccept(c) ==
    /\ UNCHANGED world
    /\ main_pc = "serving"
    /\ client_pc[c] = "idle"
    /\ client_conn[c] = "closed"
    /\ \A b \in Clients : b < c => client_pc[b] # "idle"
    /\ client_conn' = [client_conn EXCEPT ![c] = "open"]
    /\ UNCHANGED <<daemon, clock, lock, main_pc, tick_pc, tick_now, tick_path,
                   client_pc, client_msg, client_resp, activity_stream,
                   history>>

\* stream.recv() returns Err: handle_client returns through `?` before it
\* takes the lock, the stream is dropped and run logs the error
ClientRecvFail(c) ==
    /\ UNCHANGED world
    /\ client_pc[c] = "idle"
    /\ client_conn[c] = "open"
    /\ client_conn' = [client_conn EXCEPT ![c] = "closed"]
    /\ UNCHANGED <<daemon, clock, lock, main_pc, tick_pc, tick_now, tick_path,
                   client_pc, client_msg, client_resp, activity_stream,
                   history>>

\* a failed send that takes the handler's Toggle back
ClientSendFailUndoing(c) ==
    /\ UNCHANGED world
    /\ client_pc[c] = "send"
    /\ client_pc' = [client_pc EXCEPT ![c] = "idle"]
    /\ client_conn' = [client_conn EXCEPT ![c] = "closed"]
    /\ client_resp' = [client_resp EXCEPT ![c] = NoResp]
    /\ client_msg' = [client_msg EXCEPT ![c] = "none"]
    /\ commit' = [commit EXCEPT ![c].state = "unsent"]
    /\ is_enabled' = IF client_msg[c] = "Toggle" THEN ~is_enabled
                     ELSE is_enabled
    /\ UNCHANGED <<config, elapsed, last_update, next_timer_at, next_timer,
                   timers, is_frozen, last_input, clock, lock, main_pc,
                   tick_pc, tick_now, tick_path, activity_stream, fired,
                   prev_tick, tick_pre, tick_log, reset_from>>

\* stream.send(resp) returns Err: handle_client returns through `?`, the
\* stream is dropped and run logs the error
ClientSendFail(c) ==
    /\ UNCHANGED world
    /\ client_pc[c] = "send"
    /\ client_pc' = [client_pc EXCEPT ![c] = "idle"]
    /\ client_conn' = [client_conn EXCEPT ![c] = "closed"]
    /\ client_resp' = [client_resp EXCEPT ![c] = NoResp]
    /\ client_msg' = [client_msg EXCEPT ![c] = "none"]
    /\ commit' = [commit EXCEPT ![c].state = "unsent"]
    /\ UNCHANGED <<daemon, clock, lock, main_pc, tick_pc, tick_now, tick_path,
                   activity_stream, fired, prev_tick, tick_pre, tick_log,
                   reset_from>>

\* the daemon without activity tracking whose client connections can fail
FailInit ==
    /\ config = Config(<<TimerShort, TimerLong>>, None)
    /\ DaemonNew

FailNext ==
    \/ Elapse
    \/ Startup
    \/ TickLock
    \/ TickBody
    \/ TickUpdateTimer
    \/ TickUnlock
    \/ \E c \in Clients : ClientAccept(c)
    \/ \E c \in Clients : ClientRecvFail(c)
    \/ \E c \in Clients : \E msg \in IpcRequest : ClientLock(c, msg)
    \/ \E c \in Clients : ClientHandleMsg(c)
    \/ \E c \in Clients : ClientUpdateTimer(c)
    \/ \E c \in Clients : ClientUnlock(c)
    \/ \E c \in Clients : ClientSend(c)
    \/ \E c \in Clients : ClientSendFail(c)

FailSpec == FailInit /\ [][FailNext]_vars

\* handler c ends in stream.recv()
RecvFailStep(c) ==
    /\ client_pc[c] = "idle" /\ client_pc'[c] = "idle"
    /\ client_conn[c] = "open" /\ client_conn'[c] = "closed"

\* handler c ends in stream.send() without having sent
SendFailStep(c) == SendStep(c) /\ commit'[c].state = "unsent"

\* every task but handler c is where it was
OthersUntouched(c) ==
    /\ lock' = lock
    /\ lock # Some(c)
    /\ main_pc' = main_pc /\ main_pc = "serving"
    /\ tick_pc' = tick_pc
    /\ \A b \in Clients \ {c} :
          /\ client_pc'[b] = client_pc[b]
          /\ client_conn'[b] = client_conn[b]
          /\ client_msg'[b] = client_msg[b]
          /\ client_resp'[b] = client_resp[b]

\* C33: a handler that ends in recv has not changed the Daemon; a handler
\* that ends in send leaves the Daemon as its handle_msg left it (a Toggle
\* it made is still in is_enabled unless a later Toggle was made); in both
\* cases the failing task holds no lock, ends alone, and the main loop, the
\* tick task and the other handlers are where they were.
FailureIsolated ==
    [][\A c \in Clients :
          /\ RecvFailStep(c) =>
                /\ daemon' = daemon
                /\ OthersUntouched(c)
                /\ client_msg[c] = "none"
          /\ SendFailStep(c) =>
                /\ daemon' = daemon
                /\ OthersUntouched(c)
                /\ client_conn'[c] = "closed"
                /\ (client_msg[c] = "Toggle" /\ commit[c].state = "fresh")
                      => is_enabled' = ~commit[c].was_enabled]_vars

\* handler 1 re-enabled a disabled daemon with a Toggle and failed to send
\* the response: the connection is gone, the daemon is enabled, and the tick
\* task is running a tick
FailureIsolatedWitness ==
    /\ commit[1] = [state |-> "unsent", was_enabled |-> FALSE]
    /\ client_pc[1] = "idle"
    /\ client_conn[1] = "closed"
    /\ is_enabled
    /\ tick_pc = "locked"
    /\ elapsed > 0

\* --------------------------------------------------------------------- C34
\* SIGTERM or SIGINT is delivered to the process; the streams of lines
\* 116-117 hold it until the serving loop polls them
Signal ==
    /\ main_pc \in {"new", "serving"}
    /\ signal = "none"
    /\ signal' = "pending"
    /\ UNCHANGED <<daemon, clock, tasks, history, wall_back, actived>>

\* a serving loop that leaves only once no request is in flight
ShutdownDraining ==
    /\ main_pc = "serving"
    /\ signal = "pending"
    /\ CanLock
    /\ \A c \in Clients : client_pc[c] = "idle"
    /\ main_pc' = "stopped"
    /\ UNCHANGED <<daemon, clock, lock, tick_pc, tick_now, tick_path,
                   client_pc, client_msg, client_resp, client_conn,
                   activity_stream, history, world>>

\* the sigterm / sigint branch of select!: break, and run returns.  The main
\* task is polled between the synchronous sections of the other tasks, so
\* no task is inside its critical section.
Shutdown ==
    /\ main_pc = "serving"
    /\ signal = "pending"
    /\ CanLock
    /\ main_pc' = "stopped"
    /\ UNCHANGED <<daemon, clock, lock, tick_pc, tick_now, tick_path,
                   client_pc, client_msg, client_resp, client_conn,
                   activity_stream, history, world>>

\* the daemon and its clients until run returns: the runtime is dropped
\* with main, and no task takes a step after that
ShutNext ==
    \/ Signal
    \/ Shutdown
    \/ /\ main_pc # "stopped"
       /\ \/ Elapse
          \/ Startup
          \/ TickLock
          \/ TickBody
          \/ TickUpdateTimer
          \/ TickUnlock
          \/ \E c \in Clients : \E msg \in IpcRequest : ClientLock(c, msg)
          \/ \E c \in Clients : ClientHandleMsg(c)
          \/ \E c \in Clients : ClientUpdateTimer(c)
          \/ \E c \in Clients : ClientUnlock(c)
          \/ \E c \in Clients : ClientSend(c)

\* run reaches its loop; a task that holds the guard is in synchronous code
\* and runs on to the drop of the guard; the main task, woken by the signal,
\* is polled again and again until select! takes the signal branch
ShutFairness ==
    /\ WF_vars(Startup)
    /\ WF_vars(TickBody)
    /\ WF_vars(TickUpdateTimer)
    /\ WF_vars(TickUnlock)
    /\ \A c \in Clients :
          /\ WF_vars(ClientHandleMsg(c))
          /\ WF_vars(ClientUpdateTimer(c))
          /\ WF_vars(ClientUnlock(c))
    /\ SF_vars(Shutdown)

ShutSpec == FailInit /\ [][ShutNext]_vars /\ ShutFairness

\* C34: once a signal is pending the serving loop is eventually left and
\* run returns, whatever the client handlers do: no step of a handler after
\* the drop of its guard and no side effect is waited for.
ShutdownOnSignal == (signal = "pending") ~> (main_pc = "stopped")

\* run has returned while handler 1 still has its response to send and
\* a firing has dispatched its side effects
ShutdownOnSignalWitness ==
    /\ main_pc = "stopped"
    /\ client_pc[1] = "send"
    /\ client_conn[1] = "open"
    /\ SumFired(fired, AllTimers) > 0

\* --------------------------------------------------------------------- C35
\* the connection of handler c is open: its task has not returned
AdConnected(c) == ad_pc[c] \in {"initial", "recv", "send"}

\* run_input_listener on an input event: the timestamp is stored and sent
\* on the broadcast channel, which takes it only if a receiver exists
InputEvent ==
    /\ Len(ad_channel) < MaxEvents
    /\ ad_last_input' = get_unix_time
    /\ ad_channel' = IF \E c \in Clients : AdConnected(c)
                     THEN Append(ad_channel, get_unix_time)
                     ELSE ad_channel
    /\ UNCHANGED <<daemon, clock, tasks, history, signal, wall_back, ad_pc,
                   ad_rx, ad_timestamp, ad_stream, ad_subscribed>>

\* the accept loop of main: accept_client, broadcast_tx.subscribe(), spawn
AdAccept(c) ==
    /\ ad_pc[c] = "none"
    /\ \A b \in Clients : b < c => ad_pc[b] # "none"
    /\ ad_pc' = [ad_pc EXCEPT ![c] = "initial"]
    /\ ad_rx' = [ad_rx EXCEPT ![c] = Len(ad_channel)]
    /\ ad_subscribed' = [ad_subscribed EXCEPT ![c] = Len(ad_channel)]
    /\ UNCHANGED <<daemon, clock, tasks, history, signal, wall_back,
                   ad_last_input, ad_channel, ad_timestamp, ad_stream>>

\* handle_client: last_input.load() and the send of the initial value
AdInitial(c) ==
    /\ ad_pc[c] = "initial"
    /\ ad_stream' = [ad_stream EXCEPT ![c] = Append(@, ad_last_input)]
    /\ ad_pc' = [ad_pc EXCEPT ![c] = "recv"]
    /\ UNCHANGED <<daemon, clock, tasks, history, signal, wall_back,
                   ad_last_input, ad_channel, ad_rx, ad_timestamp,
                   ad_subscribed>>

\* broadcast_rx.recv() returns: the next value, or Err(Lagged) once the
\* channel has dropped a value this receiver had not passed, which ends the
\* while let loop and the handler
AdRecv(c) ==
    /\ ad_pc[c] = "recv"
    /\ ad_rx[c] < Len(ad_channel)
    /\ IF Len(ad_channel) - ad_rx[c] > BROADCAST_CAPACITY
       THEN /\ ad_pc' = [ad_pc EXCEPT ![c] = "returned"]
            /\ UNCHANGED <<ad_rx, ad_timestamp>>
       ELSE /\ ad_timestamp' = [ad_timestamp EXCEPT
                                  ![c] = ad_channel[ad_rx[c] + 1]]
            /\ ad_rx' = [ad_rx EXCEPT ![c] = @ + 1]
            /\ ad_pc' = [ad_pc EXCEPT ![c] = "send"]
    /\ UNCHANGED <<daemon, clock, tasks, history, signal, wall_back,
                   ad_last_input, ad_channel, ad_stream, ad_subscribed>>

\* stream.send(timestamp) completes, which takes as long as the client
\* takes to read
AdSend(c) ==
    /\ ad_pc[c] = "send"
    /\ ad_stream' = [ad_stream EXCEPT ![c] = Append(@, ad_timestamp[c])]
    /\ ad_pc' = [ad_pc EXCEPT ![c] = "recv"]
    /\ UNCHANGED <<daemon, clock, tasks, history, signal, wall_back,
                   ad_last_input, ad_channel, ad_rx, ad_timestamp,
                   ad_subscribed>>

\* actived and its clients
ActivedNext ==
    \/ Elapse
    \/ InputEvent
    \/ \E c \in Clients : AdAccept(c)
    \/ \E c \in Clients : AdInitial(c)
    \/ \E c \in Clients : AdRecv(c)
    \/ \E c \in Clients : AdSend(c)

\* actived runs beside a daemon that is configured to track activity
ActivedInit ==
    /\ config = Config(<<TimerDelayed>>, Some(InputTracking(3, 5)))
    /\ DaemonNew

ActivedSpec == ActivedInit /\ [][ActivedNext]_vars

\* C35: while a connection is open, what its handler has written after the
\* initial value is the input events since the accept, in order, and every
\* event not yet written is still held for it by the channel.
EveryEventDelivered ==
    \A c \in Clients :
       AdConnected(c) =>
          /\ \A i \in 2..Len(ad_stream[c]) :
                ad_stream[c][i] = ad_channel[ad_subscribed[c] + i - 1]
          /\ Len(ad_channel) - ad_rx[c] <= BROADCAST_CAPACITY

\* --------------------------------------------------------------------- C36
\* the daemon on catalogs whose timers have an initial_delay and no decline
DelayInit ==
    /\ config \in { Config(<<TimerAtStart>>, Some(InputTracking(2, 4))),
                    Config(<<TimerDelayedFlat, TimerShort>>, None) }
    /\ DaemonNew

DelaySpec == DelayInit /\ [][Next]_vars

\* C36: a completed tick of a disabled or frozen daemon that made no reset
\* has fired nothing and has left elapsed and next_timer_at as they were
\* (and with them the selected timer and the prompts, which change only
\* where next_timer_at is recomputed).
IdleTickIsInert ==
    (/\ TickDone
     /\ tick_log.resets = 0
     /\ is_frozen \/ ~is_enabled)
    => /\ elapsed = tick_pre.elapsed
       /\ tick_log.fired = 0
       /\ next_timer_at = tick_pre.next_timer_at

\* --------------------------------------------------------------------- C37
\* C37: when a tick has fired and recomputed the schedule, next_timer_at
\* is strictly greater than elapsed, so no later tick fires for the same
\* due time.
FiringMovesDueTime ==
    (TickDone /\ tick_log.fired > 0) => next_timer_at > elapsed

\* --------------------------------------------------------------------- C38
\* the step of a firing tick that recomputes the schedule
FiringUpdateStep ==
    tick_pc = "update" /\ tick_path = "fire" /\ tick_pc' = "unlock"

\* C38: the body of a tick calls notify at most once, for the timer that
\* was selected when the tick began, whatever delta is; the recomputation
\* that follows notifies nothing, starts from the new elapsed (every
\* time_left is the time to the timer's first due point after elapsed, the
\* wait is taken from the least of them) and so sets next_timer_at no
\* earlier than elapsed: the due points the tick passed are not replayed.
SingleFiringPerTick ==
    [][/\ TickBodyStep =>
             \/ fired' = fired
             \/ fired' = NoFired
             \/ /\ next_timer # None
                /\ fired' = [fired EXCEPT ![Unwrap(next_timer)] = @ + 1]
                /\ tick_log'.fired = 1
       /\ FiringUpdateStep =>
             /\ fired' = fired
             /\ tick_log' = tick_log
             /\ elapsed' = elapsed
             /\ \A i \in 1..Len(timers') :
                   /\ timers'[i].time_left
                         = TimeLeft(timers'[i].timer, elapsed)
                   /\ timers'[1].time_left <= timers'[i].time_left
             /\ next_timer_at'
                   = elapsed + Wait(timers'[1].timer, timers'[1].time_left,
                                    timers'[1].prompts - 1)
             /\ next_timer_at' >= elapsed]_vars

\* the first tick comes after four quanta or more: it passed the due points
\* 2 and 4 of the short timer and 4 of the long one, and has notified once
SingleFiringPerTickWitness ==
    /\ TickDone
    /\ config.timers = <<TimerShort, TimerLong>>
    /\ tick_pre.elapsed = 0
    /\ tick_pre.delta >= 4
    /\ elapsed = tick_pre.delta
    /\ tick_log.fired = 1
    /\ SumFired(fired, AllTimers) = 1
    /\ next_timer_at > elapsed

\* --------------------------------------------------------------------- C39
\* the wall clock is set back (by the user or by a time synchronisation);
\* the monotonic clock of Instant::now() is not affected
WallClockBack(k) ==
    /\ wall_back + k <= MaxStepBack
    /\ get_unix_time - k >= 0
    /\ wall_back' = wall_back + k
    /\ UNCHANGED <<daemon, clock, tasks, history, signal, actived>>

\* the running tick is about to evaluate get_unix_time() - self.last_input:
\* tracking is configured and delta is below reset_after
EvaluatesSinceInput ==
    /\ tick_pc = "locked"
    /\ config.input_tracking # None
    /\ ~SuspendGap(DurationSince(tick_now, last_update),
                   Unwrap(config.input_tracking))

\* get_unix_time() - self.last_input in a build with overflow checks: the
\* subtraction panics inside the critical section, the tick task ends and
\* the guard it held poisons the mutex
TickPanic ==
    /\ UNCHANGED world
    /\ EvaluatesSinceInput
    /\ last_input > get_unix_time
    /\ tick_pc' = "panicked"
    /\ UNCHANGED <<daemon, clock, lock, main_pc, tick_now, tick_path,
                   client_pc, client_msg, client_resp, client_conn,
                   activity_stream, history>>

\* the daemon with activity tracking on a machine whose wall clock can be
\* set back; actived stamps an event with the wall clock at the event
WallNext ==
    \/ Elapse
    \/ Startup
    \/ \E k \in 1..MaxStepBack : WallClockBack(k)
    \/ TickLock
    \/ TickBody
    \/ TickPanic
    \/ TickUpdateTimer
    \/ TickUnlock
    \/ \E t \in 0..get_unix_time : get_unix_time - t <= MaxLag /\ Activity(t)

WallSpec == LossInit /\ [][WallNext]_vars

\* C39: whenever a tick evaluates get_unix_time() - last_input, last_input
\* is not later than the wall clock, and no tick ends in a panic.
SinceInputNeverUnderflows ==
    /\ EvaluatesSinceInput => last_input <= get_unix_time
    /\ tick_pc # "panicked"

\* --------------------------------------------------------------------- C40
\* the daemon alone on a catalog without initial delays, without activity
\* tracking and without clients: it stays enabled and unfrozen and is never
\* reset
LiveInit ==
    /\ config \in { Config(<<TimerShort, TimerLong>>, None),
                    Config(<<TimerLong, TimerShort>>, None),
                    Config(<<TimerShort>>, None) }
    /\ DaemonNew

\* a tick with a positive delta: time has passed since the previous one
LiveTickLock == clock > last_update /\ TickLock

LiveNext ==
    \/ Elapse
    \/ Startup
    \/ LiveTickLock
    \/ TickBody
    \/ TickUpdateTimer
    \/ TickUnlock

\* time passes, run reaches its loop, and the tick task keeps running:
\* interval.tick() returns every TICK_INTERVAL and the tick runs to its end
LiveFairness ==
    /\ WF_vars(Elapse)
    /\ WF_vars(Startup)
    /\ WF_vars(LiveTickLock)
    /\ WF_vars(TickBody)
    /\ WF_vars(TickUpdateTimer)
    /\ WF_vars(TickUnlock)

LiveSpec == LiveInit /\ [][LiveNext]_vars /\ LiveFairness

\* C40: on a non-empty catalog, with ticks of positive delta that keep
\* coming and a daemon that stays enabled, unfrozen and unreset, every due
\* time within the horizon of the model is followed by a firing: between
\* two ticks, after n firings and with next_timer_at within the horizon,
\* firing n + 1 eventually occurs.  Elapsed never decreases and is strictly larger at a
\* firing than before its tick, so it strictly increases from one firing
\* to the next.
ScheduleIsLive ==
    /\ \A n \in 0..Horizon :
          (/\ main_pc = "serving"
           /\ tick_pc = "sleep"
           /\ SumFired(fired, AllTimers) = n
           /\ next_timer_at <= Horizon)
             ~> (SumFired(fired, AllTimers) > n)
    /\ [][/\ elapsed' >= elapsed
          /\ NotifyStep => elapsed' > elapsed]_vars

\* the second firing of a run has just happened, at an elapsed value
\* beyond that of the first
ScheduleIsLiveWitness ==
    /\ TickDone
    /\ tick_log.fired = 1
    /\ SumFired(fired, AllTimers) = 2
    /\ elapsed > tick_pre.elapsed
    /\ tick_pre.elapsed >= 2
    /\ is_enabled /\ ~is_frozen
====
